---- MODULE Spec2Model ----
(***************************************************************************)
(* Bring-up, pipeline composition and teardown of the lima (Mali-400/450)  *)
(* device, and the broadcast unit mask programming.                        *)
(*   drivers/gpu/drm/lima/lima_device.c                                    *)
(*   drivers/gpu/drm/lima/lima_bcast.c                                     *)
(* Every call the driver makes to a collaborator (clock, reset, regulator, *)
(* DMA allocator, block drivers, scheduler pipes) is recorded in `calls`   *)
(* together with its result; the collaborators' results are chosen         *)
(* nondeterministically.                                                   *)
(***************************************************************************)
EXTENDS Integers, Sequences, FiniteSets

VARIABLES ldev,      \* struct lima_device: id and resource handles
          ip,        \* ldev->ip[]: one struct lima_ip per slot
          pipe,      \* ldev->pipe[]: the gp and pp struct lima_sched_pipe
          regs,      \* registers of the broadcast unit
          calls,     \* sequence of <<callee, argument, result>>
          pc,        \* position of the caller in the device's life cycle
          i,         \* loop variable i of lima_device_init
          err,       \* value returned by lima_device_init
          num_pp,    \* argument of the last lima_bcast_enable, -1 if none
          faults,    \* number of non fatal slot failures so far
          attempt    \* number of the current call of lima_device_init

vars == <<ldev, ip, pipe, regs, calls, pc, i, err, num_pp, faults, attempt>>

----------------------------------------------------------------------------
(* Bounds *)

\* at most this many optional slots fail their interrupt lookup or init
MaxFaults == 1

\* lima_device_init is called at most this many times on one device
MaxAttempts == 2

----------------------------------------------------------------------------
(* Constants of the program *)

lima_gpu_mali400 == 0
lima_gpu_mali450 == 1

lima_pipe_gp == 0
lima_pipe_pp == 1

lima_ip_pmu         == 0
lima_ip_l2_cache0   == 1
lima_ip_l2_cache1   == 2
lima_ip_l2_cache2   == 3
lima_ip_gp          == 4
lima_ip_pp0         == 5
lima_ip_pp7         == 12
lima_ip_gpmmu       == 13
lima_ip_ppmmu0      == 14
lima_ip_dlbu        == 22
lima_ip_bcast       == 23
lima_ip_pp_bcast    == 24
lima_ip_ppmmu_bcast == 25
\* a slot count that leaves out the last slot of the table
lima_ip_num_short   == lima_ip_ppmmu_bcast
lima_ip_num         == 26

LIMA_SCHED_PIPE_MAX_PROCESSOR == 8

ENOMEM == 12
ENODEV == 19

\* error codes a failing collaborator returns
ErrCodes == {-ENODEV, -ENOMEM}
\* 0 is success
Results == {0} \cup ErrCodes
\* what an interrupt lookup or a block driver's init returns
SlotResults == {0, -ENODEV}

\* pointer values
NULL  == "NULL"
VALID == "VALID"
ERR   == "ERR_PTR"

Slots == 0 .. (lima_ip_num - 1)

----------------------------------------------------------------------------
(* The descriptor table *)

LIMA_IP_DESC(ipname, mst0, mst1, off0, off1, func, irq) ==
  [ name      |-> ipname,
    irq_name  |-> irq,
    must_have |-> <<mst0, mst1>>,
    offset    |-> <<off0, off1>>,
    func      |-> func ]

lima_ip_desc == <<
  LIMA_IP_DESC("pmu",         FALSE, FALSE, \H02000, \H02000, "pmu",      "pmu"),
  LIMA_IP_DESC("l2_cache0",   TRUE,  TRUE,  \H01000, \H10000, "l2_cache", NULL),
  LIMA_IP_DESC("l2_cache1",   FALSE, TRUE,  -1,      \H01000, "l2_cache", NULL),
  LIMA_IP_DESC("l2_cache2",   FALSE, FALSE, -1,      \H11000, "l2_cache", NULL),
  LIMA_IP_DESC("gp",          TRUE,  TRUE,  \H00000, \H00000, "gp",       "gp"),
  LIMA_IP_DESC("pp0",         TRUE,  TRUE,  \H08000, \H08000, "pp",       "pp0"),
  LIMA_IP_DESC("pp1",         FALSE, FALSE, \H0A000, \H0A000, "pp",       "pp1"),
  LIMA_IP_DESC("pp2",         FALSE, FALSE, \H0C000, \H0C000, "pp",       "pp2"),
  LIMA_IP_DESC("pp3",         FALSE, FALSE, \H0E000, \H0E000, "pp",       "pp3"),
  LIMA_IP_DESC("pp4",         FALSE, FALSE, -1,      \H28000, "pp",       "pp4"),
  LIMA_IP_DESC("pp5",         FALSE, FALSE, -1,      \H2A000, "pp",       "pp5"),
  LIMA_IP_DESC("pp6",         FALSE, FALSE, -1,      \H2C000, "pp",       "pp6"),
  LIMA_IP_DESC("pp7",         FALSE, FALSE, -1,      \H2E000, "pp",       "pp7"),
  LIMA_IP_DESC("gpmmu",       TRUE,  TRUE,  \H03000, \H03000, "mmu",      "gpmmu"),
  LIMA_IP_DESC("ppmmu0",      TRUE,  TRUE,  \H04000, \H04000, "mmu",      "ppmmu0"),
  LIMA_IP_DESC("ppmmu1",      FALSE, FALSE, \H05000, \H05000, "mmu",      "ppmmu1"),
  LIMA_IP_DESC("ppmmu2",      FALSE, FALSE, \H06000, \H06000, "mmu",      "ppmmu2"),
  LIMA_IP_DESC("ppmmu3",      FALSE, FALSE, \H07000, \H07000, "mmu",      "ppmmu3"),
  LIMA_IP_DESC("ppmmu4",      FALSE, FALSE, -1,      \H1C000, "mmu",      "ppmmu4"),
  LIMA_IP_DESC("ppmmu5",      FALSE, FALSE, -1,      \H1D000, "mmu",      "ppmmu5"),
  LIMA_IP_DESC("ppmmu6",      FALSE, FALSE, -1,      \H1E000, "mmu",      "ppmmu6"),
  LIMA_IP_DESC("ppmmu7",      FALSE, FALSE, -1,      \H1F000, "mmu",      "ppmmu7"),
  LIMA_IP_DESC("dlbu",        FALSE, TRUE,  -1,      \H14000, "dlbu",     NULL),
  LIMA_IP_DESC("bcast",       FALSE, TRUE,  -1,      \H13000, "bcast",    NULL),
  LIMA_IP_DESC("pp_bcast",    FALSE, TRUE,  -1,      \H16000, "pp_bcast", "pp"),
  LIMA_IP_DESC("ppmmu_bcast", FALSE, TRUE,  -1,      \H15000, "mmu",      NULL) >>

\* lima_ip_desc + index
desc(index) == lima_ip_desc[index + 1]
\* desc->offset[dev->id], desc->must_have[dev->id]
offset_of(index, id)    == desc(index).offset[id + 1]
must_have_of(index, id) == desc(index).must_have[id + 1]

----------------------------------------------------------------------------
(* Bit operations on register values *)

RECURSIVE Pow2(_)
Pow2(n) == IF n = 0 THEN 1 ELSE 2 * Pow2(n - 1)

\* bit b of m
Bit(m, b) == (m \div Pow2(b)) % 2
\* m | (1 << b)
OrBit(m, b) == IF Bit(m, b) = 1 THEN m ELSE m + Pow2(b)
\* the mask that is not applied
AndHigh16_keep(m) == m
\* m & 0xffff0000
AndHigh16(m) == (m \div Pow2(16)) * Pow2(16)

----------------------------------------------------------------------------
(* The call record *)

Ev(op, arg, res) == <<op, arg, res>>

\* the calls made so far to callee op with argument arg, whatever the result
CallsTo(op, arg) == { n \in DOMAIN calls : calls[n][1] = op /\ calls[n][2] = arg }
\* the calls made so far to op with argument arg that returned res
CallsRet(op, arg, res) == { n \in CallsTo(op, arg) : calls[n][3] = res }

----------------------------------------------------------------------------
(* Initial state: a zeroed struct lima_device of either variant *)

Init ==
  /\ ldev \in { [ id |-> v, clk_bus |-> NULL, clk_gpu |-> NULL, reset |-> NULL,
                  regulator |-> NULL, empty_vm |-> NULL, va_end |-> "0",
                  dlbu_cpu |-> NULL, iomem |-> NULL ] :
                v \in {lima_gpu_mali400, lima_gpu_mali450} }
  /\ ip = [ k \in Slots |-> [ id |-> 0, iomem |-> <<>>, present |-> FALSE ] ]
  /\ pipe = [ p \in {lima_pipe_gp, lima_pipe_pp} |->
              [ l2_cache |-> <<>>, mmu |-> <<>>, processor |-> <<>>,
                bcast_processor |-> <<>>, bcast_mmu |-> <<>> ] ]
  /\ regs = [ BROADCAST_MASK |-> 0, INTERRUPT_MASK |-> 0 ]
  /\ calls = <<>>
  /\ pc = "clk_init"
  /\ i = 0
  /\ err = 0
  /\ num_pp = -1
  /\ faults = 0
  /\ attempt = 1

----------------------------------------------------------------------------
(* lima_clk_init / lima_clk_fini *)

\* lima_clk_fini that leaves the reset line alone
lima_clk_fini_no_assert(d) ==
  << Ev("clk_disable_unprepare_gpu", 0, 0),
     Ev("clk_disable_unprepare_bus", 0, 0) >>

\* the calls of lima_clk_fini on device d
lima_clk_fini(d) ==
  (IF d.reset # NULL THEN << Ev("reset_control_assert", 0, 0) >> ELSE << >>)
  \o << Ev("clk_disable_unprepare_gpu", 0, 0),
        Ev("clk_disable_unprepare_bus", 0, 0) >>

\* lima_clk_init under the collaborators' results:
\*   gb, gg  devm_clk_get of "bus" and "core"
\*   eb, eg  clk_prepare_enable of the bus and core clocks
\*   gr      devm_reset_control_get_optional; rnull: it found no reset line
\*   da      reset_control_deassert
\* yields the device, the calls made and the return value
lima_clk_init(d, gb, gg, eb, eg, gr, rnull, da) ==
  LET c1 == << Ev("devm_clk_get_bus", 0, gb) >>
      d1 == [d EXCEPT !.clk_bus = IF gb = 0 THEN VALID ELSE ERR]
      c2 == c1 \o << Ev("devm_clk_get_core", 0, gg) >>
      d2 == [d1 EXCEPT !.clk_gpu = IF gg = 0 THEN VALID ELSE ERR]
      c3 == c2 \o << Ev("clk_prepare_enable_bus", 0, eb) >>
      c4 == c3 \o << Ev("clk_prepare_enable_gpu", 0, eg) >>
      error_out0 == << Ev("clk_disable_unprepare_bus", 0, 0) >>
      error_out1 == << Ev("clk_disable_unprepare_gpu", 0, 0) >> \o error_out0
      c5 == c4 \o << Ev("devm_reset_control_get_optional", 0, gr) >>
      d5 == [d2 EXCEPT !.reset = IF gr # 0 THEN ERR
                                 ELSE IF rnull THEN NULL ELSE VALID]
      c6 == c5 \o << Ev("reset_control_deassert", 0, da) >>
  IN  IF gb # 0 THEN [ dev |-> d1, calls |-> c1, ret |-> gb ]
      ELSE IF gg # 0 THEN [ dev |-> d2, calls |-> c2, ret |-> gg ]
      ELSE IF eb # 0 THEN [ dev |-> d2, calls |-> c3, ret |-> eb ]
      ELSE IF eg # 0 THEN [ dev |-> d2, calls |-> c4 \o error_out0, ret |-> eg ]
      ELSE IF gr # 0 THEN [ dev |-> d5, calls |-> c5 \o error_out1, ret |-> gr ]
      ELSE IF d5.reset # NULL /\ da # 0
           THEN [ dev |-> d5, calls |-> c6 \o error_out1, ret |-> da ]
      ELSE IF d5.reset # NULL
           THEN [ dev |-> d5, calls |-> c6, ret |-> 0 ]
      ELSE [ dev |-> d5, calls |-> c5, ret |-> 0 ]

----------------------------------------------------------------------------
(* lima_regulator_init / lima_regulator_fini *)

lima_regulator_fini(d) ==
  IF d.regulator # NULL THEN << Ev("regulator_disable", 0, 0) >> ELSE << >>

\* lima_regulator_init under the results gr of devm_regulator_get_optional
\* and en of regulator_enable
lima_regulator_init(d, gr, en) ==
  LET c1 == << Ev("devm_regulator_get_optional", 0, gr) >>
      c2 == c1 \o << Ev("regulator_enable", 0, en) >>
  IN  IF gr # 0
      THEN [ dev |-> [d EXCEPT !.regulator = NULL], calls |-> c1,
             ret |-> IF gr = -ENODEV THEN 0 ELSE gr ]
      ELSE IF en < 0
      THEN [ dev |-> [d EXCEPT !.regulator = VALID], calls |-> c2, ret |-> en ]
      ELSE [ dev |-> [d EXCEPT !.regulator = VALID], calls |-> c2, ret |-> 0 ]

----------------------------------------------------------------------------
(* lima_fini_ip and the unwind labels of lima_device_init *)

\* lima_fini_ip that does not look at the present flag
lima_fini_ip_unguarded(ips, index) == << Ev("fini", index, 0) >>

\* the calls of lima_fini_ip(ldev, index)
lima_fini_ip(ips, index) ==
  IF ips[index].present THEN << Ev("fini", index, 0) >> ELSE << >>

\* the same slots in ascending order
RECURSIVE fini_ip_loop_ascending(_, _)
fini_ip_loop_ascending(ips, n) ==
  IF n - 1 >= 0
  THEN fini_ip_loop_ascending(ips, n - 1) \o lima_fini_ip(ips, n - 1)
  ELSE << >>

\* while (--i >= 0) lima_fini_ip(ldev, i);  entered with i = n
RECURSIVE fini_ip_loop(_, _)
fini_ip_loop(ips, n) ==
  IF n - 1 >= 0 THEN lima_fini_ip(ips, n - 1) \o fini_ip_loop(ips, n - 1)
  ELSE << >>

lima_fini_gp_pipe ==
  << Ev("lima_gp_pipe_fini", 0, 0), Ev("lima_sched_pipe_fini", lima_pipe_gp, 0) >>

lima_fini_pp_pipe ==
  << Ev("lima_pp_pipe_fini", 0, 0), Ev("lima_sched_pipe_fini", lima_pipe_pp, 0) >>

dma_free_if_allocated(d) ==
  IF d.dlbu_cpu # NULL THEN << Ev("dma_free_wc", 0, 0) >> ELSE << >>

\* the code from label err_out<n> of lima_device_init to its return
err_out0(d)         == lima_clk_fini(d)
\* err_out1 falling through without lima_regulator_fini
err_out1_no_regulator(d) == err_out0(d)
err_out1(d)         == lima_regulator_fini(d) \o err_out0(d)
err_out2(d)         == << Ev("lima_vm_put", 0, 0) >> \o err_out1(d)
\* err_out3 falling through without dma_free_wc
err_out3_no_free(d) == err_out2(d)
err_out3(d)         == dma_free_if_allocated(d) \o err_out2(d)
err_out4(d, ips, n) == fini_ip_loop(ips, n) \o err_out3(d)
err_out5(d, ips, n) == lima_fini_gp_pipe \o err_out4(d, ips, n)


----------------------------------------------------------------------------
(* lima_bcast.c *)

\* the loop of lima_bcast_init from slot k on
RECURSIVE bcast_init_mask(_, _, _)
bcast_init_mask(ips, k, mask) ==
  IF k <= lima_ip_pp7
  THEN bcast_init_mask(ips, k + 1,
         IF ips[k].present THEN OrBit(mask, k - lima_ip_pp0) ELSE mask)
  ELSE mask

\* lima_bcast_init writing both halves of the broadcast mask register
lima_bcast_init_combined(ips) ==
  LET mask == bcast_init_mask(ips, lima_ip_pp0, 0)
  IN  [ BROADCAST_MASK |-> mask * Pow2(16) + mask, INTERRUPT_MASK |-> 0 ]

\* lima_bcast_init: the registers after it; it returns 0
lima_bcast_init(ips) ==
  LET mask == bcast_init_mask(ips, lima_ip_pp0, 0)
  IN  [ BROADCAST_MASK |-> mask * Pow2(16), INTERRUPT_MASK |-> mask ]

\* the loop of lima_bcast_enable from i = k on; pipe->processor[k] is
\* processor[k + 1] of the sequence
RECURSIVE bcast_enable_mask(_, _, _, _, _)
bcast_enable_mask(ips, processor, k, n, mask) ==
  IF k < n
  THEN bcast_enable_mask(ips, processor, k + 1, n,
         OrBit(mask, ips[processor[k + 1]].id - lima_ip_pp0))
  ELSE mask

\* lima_bcast_enable(dev, n): the registers after it
lima_bcast_enable(rg, ips, pipes, n) ==
  [ rg EXCEPT !.BROADCAST_MASK =
      bcast_enable_mask(ips, pipes[lima_pipe_pp].processor, 0, n,
                        AndHigh16(rg.BROADCAST_MASK)) ]

----------------------------------------------------------------------------
(* lima_init_ip *)

\* no slot is skipped
offset_absent_never(offset) == FALSE
\* if (offset < 0) return 0;
offset_absent(offset) == offset < 0

\* the error is always propagated
ip_ret_always(must, e) == e
\* the error is never propagated
ip_ret_never(must, e) == 0
\* return must ? err : 0;
ip_ret(must, e) == IF must THEN e ELSE 0

\* lima_init_ip(dev, index) under the results r_irq of
\* platform_get_irq_byname and r_init of the slot's init function
lima_init_ip(d, ips, rg, index, r_irq, r_init) ==
  LET offset == offset_of(index, d.id)
      must   == must_have_of(index, d.id)
      ip1    == [ips EXCEPT ![index].id = index, ![index].iomem = << offset >>]
      has_irq == desc(index).irq_name # NULL
      c_irq  == IF has_irq THEN << Ev("platform_get_irq_byname", index, r_irq) >>
                ELSE << >>
      is_bcast == desc(index).func = "bcast"
      e_init == IF is_bcast THEN 0 ELSE r_init
      rg1    == IF is_bcast THEN lima_bcast_init(ip1) ELSE rg
      c_init == c_irq \o << Ev("init", index, e_init) >>
  IN  IF offset_absent(offset)
      THEN [ ip |-> ips, regs |-> rg, calls |-> << >>, ret |-> 0 ]
      ELSE IF has_irq /\ r_irq < 0
      THEN [ ip |-> ip1, regs |-> rg, calls |-> c_irq,
             ret |-> ip_ret(must, r_irq) ]
      ELSE IF e_init = 0
      THEN [ ip |-> [ip1 EXCEPT ![index].present = TRUE], regs |-> rg1,
             calls |-> c_init, ret |-> 0 ]
      ELSE [ ip |-> ip1, regs |-> rg1, calls |-> c_init,
             ret |-> ip_ret(must, e_init) ]

----------------------------------------------------------------------------
(* Pipeline composition *)

\* an array entry that always reads as NULL
l2_cache_at_null(p, n) == << >>

\* pipe->l2_cache[n] of a zero-initialised array filled from the front
l2_cache_at(p, n) == IF n + 1 <= Len(p.l2_cache) THEN << p.l2_cache[n + 1] >>
                     ELSE << >>

\* lima_init_gp_pipe under the results r_sched of lima_sched_pipe_init and
\* r_gp of lima_gp_pipe_init
lima_init_gp_pipe(p, r_sched, r_gp) ==
  LET c1 == << Ev("lima_sched_pipe_init", lima_pipe_gp, r_sched) >>
      p1 == [p EXCEPT !.l2_cache  = Append(@, lima_ip_l2_cache0),
                      !.mmu       = Append(@, lima_ip_gpmmu),
                      !.processor = Append(@, lima_ip_gp)]
      c2 == c1 \o << Ev("lima_gp_pipe_init", 0, r_gp) >>
  IN  IF r_sched # 0 THEN [ pipe |-> p, calls |-> c1, ret |-> r_sched ]
      ELSE IF r_gp # 0
      THEN [ pipe |-> p1,
             calls |-> c2 \o << Ev("lima_sched_pipe_fini", lima_pipe_gp, 0) >>,
             ret |-> r_gp ]
      ELSE [ pipe |-> p1, calls |-> c2, ret |-> 0 ]

\* fragment processor 0 whatever k
pp_ip_first(k) == lima_ip_pp0
\* dev->ip + lima_ip_pp0 + i and dev->ip + lima_ip_ppmmu0 + i
pp_ip(k) == lima_ip_pp0 + k
\* the MMU of fragment processor 0 whatever k
pp_mmu_ip_first(k) == lima_ip_ppmmu0
pp_mmu_ip(k) == lima_ip_ppmmu0 + k

\* one cache for all processors of the larger variant
pp_l2_cache_single(id, k) ==
  IF id = lima_gpu_mali400 THEN lima_ip_l2_cache0 ELSE lima_ip_l2_cache1
\* the candidate L2 cache of fragment processor k
pp_l2_cache(id, k) ==
  IF id = lima_gpu_mali400 THEN lima_ip_l2_cache0
  ELSE lima_ip_l2_cache1 + (k \div 4)

\* the loop including a processor whatever the state of its MMU
RECURSIVE pp_pipe_loop_mmu_unchecked(_, _, _, _)
pp_pipe_loop_mmu_unchecked(id, ips, p, k) ==
  IF k < LIMA_SCHED_PIPE_MAX_PROCESSOR
  THEN LET pp       == pp_ip(k)
           ppmmu    == pp_mmu_ip(k)
           l2_cache == pp_l2_cache(id, k)
           p1 == IF ips[pp].present /\ ips[l2_cache].present
                 THEN [p EXCEPT !.mmu       = Append(@, ppmmu),
                                !.processor = Append(@, pp),
                                !.l2_cache  = IF l2_cache_at(p, k \div 4) = << >>
                                              THEN Append(@, l2_cache) ELSE @]
                 ELSE p
       IN  pp_pipe_loop_mmu_unchecked(id, ips, p1, k + 1)
  ELSE p

\* the for loop of lima_init_pp_pipe from iteration k on
RECURSIVE pp_pipe_loop(_, _, _, _)
pp_pipe_loop(id, ips, p, k) ==
  IF k < LIMA_SCHED_PIPE_MAX_PROCESSOR
  THEN LET pp       == pp_ip(k)
           ppmmu    == pp_mmu_ip(k)
           l2_cache == pp_l2_cache(id, k)
           p1 == IF ips[pp].present /\ ips[ppmmu].present /\ ips[l2_cache].present
                 THEN [p EXCEPT !.mmu       = Append(@, ppmmu),
                                !.processor = Append(@, pp),
                                !.l2_cache  = IF l2_cache_at(p, k \div 4) = << >>
                                              THEN Append(@, l2_cache) ELSE @]
                 ELSE p
       IN  pp_pipe_loop(id, ips, p1, k + 1)
  ELSE p

\* a device that always routes through a broadcast unit
bcast_present_always(ips) == TRUE

\* dev->ip[lima_ip_bcast].present
bcast_present(ips) == ips[lima_ip_bcast].present

\* lima_init_pp_pipe under the results r_sched of lima_sched_pipe_init and
\* r_pp of lima_pp_pipe_init
lima_init_pp_pipe(id, ips, p, r_sched, r_pp) ==
  LET c1 == << Ev("lima_sched_pipe_init", lima_pipe_pp, r_sched) >>
      p1 == pp_pipe_loop(id, ips, p, 0)
      p2 == IF bcast_present(ips)
            THEN [p1 EXCEPT !.bcast_processor = << lima_ip_pp_bcast >>,
                            !.bcast_mmu       = << lima_ip_ppmmu_bcast >>]
            ELSE p1
      c2 == c1 \o << Ev("lima_pp_pipe_init", 0, r_pp) >>
  IN  IF r_sched # 0 THEN [ pipe |-> p, calls |-> c1, ret |-> r_sched ]
      ELSE IF r_pp # 0
      THEN [ pipe |-> p2,
             calls |-> c2 \o << Ev("lima_sched_pipe_fini", lima_pipe_pp, 0) >>,
             ret |-> r_pp ]
      ELSE [ pipe |-> p2, calls |-> c2, ret |-> 0 ]


----------------------------------------------------------------------------
(* lima_device_init, one action per stage; a failing stage runs the unwind *)
(* from its label to the return of lima_device_init                        *)

\* lima_device_init returns e after the calls cs
Return(e, cs) ==
  /\ calls' = calls \o cs
  /\ err' = e
  /\ pc' = IF e = 0 THEN "ready" ELSE "failed"

\* lima_device_init goes on to stage next after the calls cs
Continue(next, cs) ==
  /\ calls' = calls \o cs
  /\ pc' = next
  /\ UNCHANGED err

device_init_clk ==
  /\ pc = "clk_init"
  /\ \E gb, gg, eb, eg, gr, da \in Results, rnull \in BOOLEAN :
       LET r  == lima_clk_init(ldev, gb, gg, eb, eg, gr, rnull, da)
           cs == << Ev("dma_set_coherent_mask", 0, 0) >> \o r.calls
       IN  /\ ldev' = r.dev
           /\ IF r.ret # 0 THEN Return(r.ret, cs)
              ELSE Continue("regulator_init", cs)
  /\ UNCHANGED <<ip, pipe, regs, i, num_pp, faults, attempt>>

device_init_regulator ==
  /\ pc = "regulator_init"
  /\ \E gr, en \in Results :
       LET r == lima_regulator_init(ldev, gr, en)
       IN  /\ ldev' = r.dev
           /\ IF r.ret # 0 THEN Return(r.ret, r.calls \o err_out0(r.dev))
              ELSE Continue("vm_create", r.calls)
  /\ UNCHANGED <<ip, pipe, regs, i, num_pp, faults, attempt>>

device_init_vm ==
  /\ pc = "vm_create"
  /\ \E vm \in {NULL, VALID} :
       LET d  == [ldev EXCEPT !.empty_vm = vm]
           cs == << Ev("lima_vm_create", 0, IF vm = NULL THEN -ENOMEM ELSE 0) >>
       IN  /\ ldev' = d
           /\ IF vm = NULL THEN Return(-ENOMEM, cs \o err_out1(d))
              ELSE Continue("va_reserve", cs)
  /\ UNCHANGED <<ip, pipe, regs, i, num_pp, faults, attempt>>

device_init_va ==
  /\ pc = "va_reserve"
  /\ IF ldev.id = lima_gpu_mali450
     THEN \E cpu \in {NULL, VALID} :
            LET d  == [ldev EXCEPT !.va_end = "LIMA_VA_RESERVE_START",
                                   !.dlbu_cpu = cpu]
                cs == << Ev("dma_alloc_wc", 0,
                            IF cpu = NULL THEN -ENOMEM ELSE 0) >>
            IN  /\ ldev' = d
                /\ IF cpu = NULL THEN Return(-ENOMEM, cs \o err_out2(d))
                   ELSE Continue("ioremap", cs)
     ELSE /\ ldev' = [ldev EXCEPT !.va_end = "LIMA_VA_RESERVE_END"]
          /\ Continue("ioremap", << >>)
  /\ UNCHANGED <<ip, pipe, regs, i, num_pp, faults, attempt>>

device_init_iomem ==
  /\ pc = "ioremap"
  /\ \E r \in Results :
       LET d  == [ldev EXCEPT !.iomem = IF r = 0 THEN VALID ELSE ERR]
           cs == << Ev("devm_ioremap_resource", 0, r) >>
       IN  /\ ldev' = d
           /\ IF r # 0 THEN Return(r, cs \o err_out3(d))
              ELSE Continue("init_ip", cs)
  /\ i' = 0
  /\ UNCHANGED <<ip, pipe, regs, num_pp, faults, attempt>>

\* one iteration of the slot loop
device_init_ip ==
  /\ pc = "init_ip"
  /\ \E r_irq, r_init \in SlotResults :
       LET r == lima_init_ip(ldev, ip, regs, i, r_irq, r_init)
           \* a failure the slot did not report
           fault == r.ret = 0 /\ \E n \in DOMAIN r.calls : r.calls[n][3] # 0
       IN  /\ fault => faults < MaxFaults
           /\ faults' = IF fault THEN faults + 1 ELSE faults
           /\ ip' = r.ip
           /\ regs' = r.regs
           /\ IF r.ret # 0
              THEN /\ Return(r.ret, r.calls \o err_out4(ldev, r.ip, i))
                   /\ UNCHANGED i
              ELSE /\ i' = i + 1
                   /\ Continue(IF i + 1 < lima_ip_num THEN "init_ip"
                               ELSE "init_gp_pipe", r.calls)
  /\ UNCHANGED <<ldev, pipe, num_pp, attempt>>

device_init_gp_pipe ==
  /\ pc = "init_gp_pipe"
  /\ \E r_sched, r_gp \in Results :
       LET r == lima_init_gp_pipe(pipe[lima_pipe_gp], r_sched, r_gp)
       IN  /\ pipe' = [pipe EXCEPT ![lima_pipe_gp] = r.pipe]
           /\ IF r.ret # 0
              THEN Return(r.ret, r.calls \o err_out4(ldev, ip, i))
              ELSE Continue("init_pp_pipe", r.calls)
  /\ UNCHANGED <<ldev, ip, regs, i, num_pp, faults, attempt>>

\* the appends of lima_init_pp_pipe have stored past the end of
\* pipe->processor or pipe->mmu, arrays of as many entries as the loop has
\* iterations
pp_pipe_overflow(p) ==
  \/ Len(p.processor) > LIMA_SCHED_PIPE_MAX_PROCESSOR
  \/ Len(p.mmu) > LIMA_SCHED_PIPE_MAX_PROCESSOR

\* what the pipe may hold after such stores: the entries as counted, or
\* only those that fit the arrays
pp_pipe_overflowed(p) ==
  LET fit(s) == SubSeq(s, 1, LIMA_SCHED_PIPE_MAX_PROCESSOR)
  IN  { p, [p EXCEPT !.processor = fit(@), !.mmu = fit(@)] }

\* a store past the end of an array is undefined behaviour: the run is
\* followed no further
device_init_pp_pipe ==
  /\ pc = "init_pp_pipe"
  /\ \E r_sched, r_pp \in Results :
       LET r == lima_init_pp_pipe(ldev.id, ip, pipe[lima_pipe_pp], r_sched, r_pp)
       IN  IF pp_pipe_overflow(r.pipe)
           THEN /\ \E q \in pp_pipe_overflowed(r.pipe) :
                     pipe' = [pipe EXCEPT ![lima_pipe_pp] = q]
                /\ calls' = calls \o << r.calls[1] >>
                /\ pc' = "undefined"
                /\ UNCHANGED err
           ELSE /\ pipe' = [pipe EXCEPT ![lima_pipe_pp] = r.pipe]
                /\ IF r.ret # 0
                   THEN Return(r.ret, r.calls \o err_out5(ldev, ip, i))
                   ELSE Return(0, r.calls)
  /\ UNCHANGED <<ldev, ip, regs, i, num_pp, faults, attempt>>

----------------------------------------------------------------------------
(* lima_device_fini *)

\* for (i = lima_ip_num - 1; i >= 0; i--) lima_fini_ip(ldev, i); from i = n
RECURSIVE fini_all_loop(_, _)
fini_all_loop(ips, n) ==
  IF n >= 0 THEN lima_fini_ip(ips, n) \o fini_all_loop(ips, n - 1) ELSE << >>

\* lima_device_fini tearing down the geometry pipe before the fragment pipe
lima_device_fini_gp_first(d, ips) ==
  lima_fini_gp_pipe \o lima_fini_pp_pipe
  \o fini_all_loop(ips, lima_ip_num - 1)
  \o dma_free_if_allocated(d)
  \o << Ev("lima_vm_put", 0, 0) >>
  \o lima_regulator_fini(d)
  \o lima_clk_fini(d)

\* the calls of lima_device_fini
lima_device_fini(d, ips) ==
  lima_fini_pp_pipe \o lima_fini_gp_pipe
  \o fini_all_loop(ips, lima_ip_num - 1)
  \o dma_free_if_allocated(d)
  \o << Ev("lima_vm_put", 0, 0) >>
  \o lima_regulator_fini(d)
  \o lima_clk_fini(d)

\* the device is removed after a successful bring-up
device_fini ==
  /\ pc = "ready"
  /\ calls' = calls \o lima_device_fini(ldev, ip)
  /\ pc' = "removed"
  /\ UNCHANGED <<ldev, ip, pipe, regs, i, err, num_pp, faults, attempt>>

----------------------------------------------------------------------------
(* lima_bcast_enable, called by the scheduler on a device that is up and   *)
(* has a broadcast unit, with at most as many processors as the pipe has   *)

bcast_enable ==
  /\ pc = "ready"
  /\ ip[lima_ip_bcast].present
  /\ \E n \in 0 .. Len(pipe[lima_pipe_pp].processor) :
       /\ regs' = lima_bcast_enable(regs, ip, pipe, n)
       /\ num_pp' = n
  /\ UNCHANGED <<ldev, ip, pipe, calls, pc, i, err, faults, attempt>>

----------------------------------------------------------------------------

Next ==
  \/ device_init_clk
  \/ device_init_regulator
  \/ device_init_vm
  \/ device_init_va
  \/ device_init_iomem
  \/ device_init_ip
  \/ device_init_gp_pipe
  \/ device_init_pp_pipe
  \/ device_fini

\* bring-up and teardown
Spec == Init /\ [][Next]_vars

\* bring-up and teardown with the scheduler reprogramming the broadcast unit
\* while the device is up
SchedNext ==
  \/ Next
  \/ bcast_enable

SpecSched == Init /\ [][SchedNext]_vars

\* lima_device_fini called on a device whose lima_device_init returned an
\* error: the same function, run on what the failed init left behind
device_fini_after_failure ==
  /\ pc = "failed"
  /\ calls' = calls \o lima_device_fini(ldev, ip)
  /\ pc' = "removed"
  /\ UNCHANGED <<ldev, ip, pipe, regs, i, err, num_pp, faults, attempt>>

\* bring-up, and teardown after a bring-up that succeeded or failed
FailedFiniNext ==
  \/ Next
  \/ device_fini_after_failure

SpecFailedFini == Init /\ [][FailedFiniNext]_vars

\* lima_device_init called again on the same struct lima_device, after it
\* failed or after lima_device_fini; nothing of the device is cleared, the
\* locals i and err start anew, and calls keeps the calls of the current
\* attempt only
device_init_retry ==
  /\ pc \in {"failed", "removed"}
  /\ attempt < MaxAttempts
  /\ attempt' = attempt + 1
  /\ pc' = "clk_init"
  /\ calls' = << >>
  /\ i' = 0
  /\ err' = 0
  /\ UNCHANGED <<ldev, ip, pipe, regs, num_pp, faults>>

\* bring-up and teardown, with bring-up tried again
RetryNext ==
  \/ Next
  \/ device_init_retry

SpecRetry == Init /\ [][RetryNext]_vars


----------------------------------------------------------------------------
(* Vocabulary of the properties *)

\* the number of calls to op with argument arg: all of them, and those that
\* returned 0
NumCalls(op, arg) ==
  Len(SelectSeq(calls, LAMBDA e : e[1] = op /\ e[2] = arg))
NumCallsOk(op, arg) ==
  Len(SelectSeq(calls, LAMBDA e : e[1] = op /\ e[2] = arg /\ e[3] = 0))

\* the arguments of the calls to op, in call order: all of them, those that
\* returned 0 and those that did not
ArgsOf(op) ==
  LET f == SelectSeq(calls, LAMBDA e : e[1] = op)
  IN  [ n \in DOMAIN f |-> f[n][2] ]
ArgsOfOk(op) ==
  LET f == SelectSeq(calls, LAMBDA e : e[1] = op /\ e[3] = 0)
  IN  [ n \in DOMAIN f |-> f[n][2] ]
ArgsOfFailed(op) ==
  LET f == SelectSeq(calls, LAMBDA e : e[1] = op /\ e[3] # 0)
  IN  [ n \in DOMAIN f |-> f[n][2] ]

Range(f) == { f[n] : n \in DOMAIN f }
\* no element occurs twice in the sequence f
NoRepeat(f) == Cardinality(Range(f)) = Len(f)

\* lima_device_init has returned 0
InitSucceeded == pc \in {"ready", "removed"}

\* the slots that received a fini call, in call order
FiniOrder == ArgsOf("fini")

\* the type-specific init of the mandatory slot k failed
MandatoryInitFailedAt(k) ==
  /\ must_have_of(k, ldev.id)
  /\ \E n \in CallsTo("init", k) : calls[n][3] # 0

\* acquisitions of a resource that succeeded equal its releases, both at most 1
Balanced(acq, rel, arg) ==
  /\ NumCallsOk(acq, arg) = NumCalls(rel, arg)
  /\ NumCalls(rel, arg) <= 1

\* clocks, reset line, regulator, DMA page, empty VM, slots and pipes
AllReleased ==
  /\ Balanced("clk_prepare_enable_bus", "clk_disable_unprepare_bus", 0)
  /\ Balanced("clk_prepare_enable_gpu", "clk_disable_unprepare_gpu", 0)
  /\ Balanced("reset_control_deassert", "reset_control_assert", 0)
  /\ Balanced("regulator_enable", "regulator_disable", 0)
  /\ Balanced("dma_alloc_wc", "dma_free_wc", 0)
  /\ Balanced("lima_vm_create", "lima_vm_put", 0)
  /\ LET inited == ArgsOfOk("init")
         finied == ArgsOf("fini")
     IN  /\ Range(inited) = Range(finied)
         /\ NoRepeat(inited) /\ NoRepeat(finied)
  /\ \A p \in {lima_pipe_gp, lima_pipe_pp} :
       Balanced("lima_sched_pipe_init", "lima_sched_pipe_fini", p)
  /\ Balanced("lima_gp_pipe_init", "lima_gp_pipe_fini", 0)
  /\ Balanced("lima_pp_pipe_init", "lima_pp_pipe_fini", 0)

----------------------------------------------------------------------------
(* C1: whenever lima_device_init has returned 0, every slot that is        *)
(* must_have for the variant is present; a slot whose offset is negative   *)
(* for the variant never has its init invoked nor its present flag set.    *)
C1_MandatoryPresentAbsentSkipped ==
  /\ InitSucceeded =>
       \A k \in Slots : must_have_of(k, ldev.id) => ip[k].present
  /\ \A k \in Slots : offset_of(k, ldev.id) < 0 => ~ ip[k].present
  /\ \A n \in DOMAIN calls :
       calls[n][1] \in {"init", "platform_get_irq_byname"}
         => offset_of(calls[n][2], ldev.id) >= 0

\* mali400 is up with one optional slot missing; pp4 has no offset there
C1_Witness ==
  /\ pc = "ready" /\ ldev.id = lima_gpu_mali400 /\ faults = 1
  /\ offset_of(lima_ip_pp0 + 4, ldev.id) < 0

(* C2: if the init of the mandatory slot at position k fails, exactly the  *)
(* present slots among 0..k-1 receive a fini call, in strictly descending  *)
(* position order, and no slot at position >= k receives one.              *)
C2_UnwindOrder ==
  LET failed == ArgsOfFailed("init")
      order  == FiniOrder
  IN  \A x \in DOMAIN failed :
        LET k == failed[x] IN
        must_have_of(k, ldev.id) =>
          /\ Range(order) = { j \in 0 .. (k - 1) : ip[j].present }
          /\ \A n \in DOMAIN order : n > 1 => order[n - 1] > order[n]

\* gpmmu fails after an optional slot before it was left absent
C2_Witness ==
  /\ MandatoryInitFailedAt(lima_ip_gpmmu)
  /\ faults = 1
  /\ Len(FiniOrder) >= 2

(* C3: when lima_device_init returns an error, every resource acquired so  *)
(* far has been released exactly once and nothing that was not acquired    *)
(* has been released.                                                      *)
C3_Rollback == pc = "failed" => AllReleased

\* the last stage fails on a device with a regulator and a reset line
C3_Witness ==
  /\ pc = "failed"
  /\ CallsRet("lima_pp_pipe_init", 0, -ENOMEM) # {}
  /\ ldev.regulator = VALID /\ ldev.reset = VALID /\ ldev.dlbu_cpu = VALID


(* C4 as stated: after a successful lima_device_init followed by           *)
(* lima_device_fini, bus clock, core clock, regulator, reset line, DMA     *)
(* page and register mapping are all back in their released state.        *)
C4_RoundTripAsStated ==
  pc = "removed" =>
    /\ Balanced("clk_prepare_enable_bus", "clk_disable_unprepare_bus", 0)
    /\ Balanced("clk_prepare_enable_gpu", "clk_disable_unprepare_gpu", 0)
    /\ Balanced("reset_control_deassert", "reset_control_assert", 0)
    /\ Balanced("regulator_enable", "regulator_disable", 0)
    /\ Balanced("dma_alloc_wc", "dma_free_wc", 0)
    /\ Balanced("devm_ioremap_resource", "devm_iounmap", 0)
    /\ ldev.iomem # VALID

(* C4 amended: after a successful lima_device_init followed by             *)
(* lima_device_fini, the enable and disable calls of the bus clock, the    *)
(* core clock and the regulator, the deassert and assert calls of the      *)
(* reset line and the allocation and release of the DMA page are balanced, *)
(* for both variants, with or without regulator and reset line; the        *)
(* register mapping is device managed and lima_device_fini does not        *)
(* release it.                                                             *)
C4_RoundTrip ==
  pc = "removed" =>
    /\ Balanced("clk_prepare_enable_bus", "clk_disable_unprepare_bus", 0)
    /\ Balanced("clk_prepare_enable_gpu", "clk_disable_unprepare_gpu", 0)
    /\ Balanced("reset_control_deassert", "reset_control_assert", 0)
    /\ Balanced("regulator_enable", "regulator_disable", 0)
    /\ Balanced("dma_alloc_wc", "dma_free_wc", 0)
    /\ CallsTo("devm_iounmap", 0) = {}
    /\ ldev.iomem = VALID

\* the larger variant, with regulator and reset line, has been removed
C4_Witness ==
  /\ pc = "removed" /\ ldev.id = lima_gpu_mali450
  /\ CallsTo("regulator_disable", 0) # {}
  /\ CallsTo("reset_control_assert", 0) # {}
  /\ CallsTo("dma_free_wc", 0) # {}

\* the register mapping step of lima_device_init failed
IoremapFailed ==
  \E n \in CallsTo("devm_ioremap_resource", 0) : calls[n][3] # 0

(* C5: if the register mapping fails, no slot's interrupt lookup or init   *)
(* is attempted, the DMA page (if allocated) is freed, the empty VM that   *)
(* backs the address space is put, and lima_device_init returns the        *)
(* mapping's error code.  (The range itself is the pair va_start, va_end   *)
(* of the device, which holds no resource.)                                *)
C5_IoremapFailure ==
  IoremapFailed =>
    /\ pc = "failed"
    /\ \A k \in Slots : /\ CallsTo("init", k) = {}
                        /\ CallsTo("platform_get_irq_byname", k) = {}
                        /\ ~ ip[k].present
    /\ \A p \in {lima_pipe_gp, lima_pipe_pp} :
         CallsTo("lima_sched_pipe_init", p) = {}
    /\ Balanced("dma_alloc_wc", "dma_free_wc", 0)
    /\ (ldev.id = lima_gpu_mali450) = (NumCalls("dma_free_wc", 0) = 1)
    /\ NumCalls("lima_vm_put", 0) = 1
    /\ \A n \in CallsTo("devm_ioremap_resource", 0) : err = calls[n][3]

\* the mapping fails on the variant that has allocated the DMA page
C5_Witness ==
  /\ IoremapFailed /\ ldev.dlbu_cpu = VALID /\ err = -ENODEV

\* call n is a failed interrupt lookup or a failed init of a slot
SlotFailure(n) ==
  /\ calls[n][1] \in {"platform_get_irq_byname", "init"}
  /\ calls[n][3] # 0

(* C6: for a slot whose offset is present, a failed interrupt lookup or a  *)
(* failed init aborts lima_device_init with that error iff the slot is     *)
(* must_have; otherwise the slot stays present=false, the failure is not   *)
(* returned and the loop goes on with the next slot.  After a failed       *)
(* interrupt lookup the slot's init is not invoked.                        *)
C6_AsymmetricFailure ==
  \A n \in DOMAIN calls :
    SlotFailure(n) =>
      LET k == calls[n][2] IN
      /\ offset_of(k, ldev.id) >= 0
      /\ ~ ip[k].present
      /\ calls[n][1] = "platform_get_irq_byname" => CallsTo("init", k) = {}
      /\ IF must_have_of(k, ldev.id)
         THEN /\ pc = "failed" /\ err = calls[n][3] /\ i = k
              /\ \A m \in DOMAIN calls : m > n => ~ SlotFailure(m)
         ELSE /\ i > k
              /\ pc \in {"init_ip", "init_gp_pipe", "init_pp_pipe", "ready",
                         "removed", "failed"}
              /\ pc = "failed" => \E m \in DOMAIN calls : m > n /\ calls[m][3] # 0
              /\ (k + 1 < lima_ip_num /\ offset_of(k + 1, ldev.id) >= 0
                  /\ pc # "init_ip")
                   => \E m \in DOMAIN calls : m > n /\ calls[m][2] = k + 1
                        /\ calls[m][1] \in {"platform_get_irq_byname", "init"}

\* the device came up although the interrupt of an optional slot is missing
C6_Witness ==
  /\ pc = "ready"
  /\ \E n \in DOMAIN calls : SlotFailure(n) /\ calls[n][1] = "platform_get_irq_byname"

\* the calls that start or acquire something
AttemptOps ==
  { "devm_clk_get_bus", "devm_clk_get_core", "clk_prepare_enable_bus",
    "clk_prepare_enable_gpu", "devm_reset_control_get_optional",
    "reset_control_deassert", "devm_regulator_get_optional", "regulator_enable",
    "lima_vm_create", "dma_alloc_wc", "devm_ioremap_resource",
    "platform_get_irq_byname", "init", "lima_sched_pipe_init",
    "lima_gp_pipe_init", "lima_pp_pipe_init" }

\* call n failed and its failure is fatal to lima_device_init
Fatal(n) ==
  /\ calls[n][3] # 0
  /\ ~ (calls[n][1] = "devm_regulator_get_optional" /\ calls[n][3] = -ENODEV)
  /\ ~ (SlotFailure(n) /\ ~ must_have_of(calls[n][2], ldev.id))

(* C7: lima_device_init returns the error code of the first fatal failure, *)
(* no later stage is attempted after it, and it returns 0 only if no       *)
(* fatal failure occurred.                                                 *)
C7_FirstFatalError ==
  /\ \A n \in DOMAIN calls :
       Fatal(n) => /\ pc = "failed"
                   /\ err = calls[n][3]
                   /\ \A m \in DOMAIN calls : m > n => calls[m][1] \notin AttemptOps
  /\ pc = "failed" => err # 0 /\ \E n \in DOMAIN calls : Fatal(n)
  /\ InitSucceeded => err = 0

\* a mandatory slot fails after an optional one was tolerated
C7_Witness ==
  /\ pc = "failed" /\ err = -ENODEV /\ faults = 1
  /\ MandatoryInitFailedAt(lima_ip_ppmmu0)


\* the loop of lima_init_pp_pipe has run
PpComposed == CallsRet("lima_sched_pipe_init", lima_pipe_pp, 0) # {}
\* the appends of lima_init_gp_pipe have run
GpComposed == CallsRet("lima_sched_pipe_init", lima_pipe_gp, 0) # {}

\* the fragment processors pp0..pp7 are all present
AllPpPresent ==
  \A k \in 0 .. (LIMA_SCHED_PIPE_MAX_PROCESSOR - 1) : ip[lima_ip_pp0 + k].present

(* C8 as stated: on mali450 with all 8 fragment processors present, the    *)
(* L2 cache list of the fragment pipe is l2_cache1 followed by l2_cache2.  *)
C8_TwoCachesAsStated ==
  (PpComposed /\ ldev.id = lima_gpu_mali450 /\ AllPpPresent) =>
    pipe[lima_pipe_pp].l2_cache = << lima_ip_l2_cache1, lima_ip_l2_cache2 >>

(* C8 amended: on mali450 with all 8 fragment processors present, with     *)
(* l2_cache2 present and with at least one of ppmmu4..ppmmu7 present, the  *)
(* L2 cache list of the fragment pipe has exactly the 2 entries l2_cache1  *)
(* followed by l2_cache2.                                                  *)
C8_TwoCaches ==
  ( /\ PpComposed /\ ldev.id = lima_gpu_mali450 /\ AllPpPresent
    /\ ip[lima_ip_l2_cache2].present
    /\ \E k \in 4 .. 7 : ip[lima_ip_ppmmu0 + k].present ) =>
    pipe[lima_pipe_pp].l2_cache = << lima_ip_l2_cache1, lima_ip_l2_cache2 >>

\* all 8 processors are in the pipe of a mali450 that is up
C8_Witness ==
  /\ pc = "ready" /\ ldev.id = lima_gpu_mali450 /\ AllPpPresent
  /\ Len(pipe[lima_pipe_pp].processor) = LIMA_SCHED_PIPE_MAX_PROCESSOR
  /\ Len(pipe[lima_pipe_pp].l2_cache) = 2

(* C9: in either pipe the processor and MMU lists have the same length and *)
(* at every index hold the blocks of one physical position: pp{j} with     *)
(* ppmmu{j} in the fragment pipe, gp with gpmmu in the geometry pipe.      *)
C9_IndexAlignment ==
  /\ \A p \in {lima_pipe_gp, lima_pipe_pp} :
       Len(pipe[p].processor) = Len(pipe[p].mmu)
  /\ \A n \in DOMAIN pipe[lima_pipe_pp].processor :
       \E j \in 0 .. (LIMA_SCHED_PIPE_MAX_PROCESSOR - 1) :
         /\ pipe[lima_pipe_pp].processor[n] = lima_ip_pp0 + j
         /\ pipe[lima_pipe_pp].mmu[n] = lima_ip_ppmmu0 + j
  /\ \A n \in DOMAIN pipe[lima_pipe_gp].processor :
       /\ pipe[lima_pipe_gp].processor[n] = lima_ip_gp
       /\ pipe[lima_pipe_gp].mmu[n] = lima_ip_gpmmu
  /\ GpComposed => Len(pipe[lima_pipe_gp].processor) = 1
  /\ PpComposed => Len(pipe[lima_pipe_pp].processor) >= 1

\* both pipes are composed and the fragment pipe skips a position
C9_Witness ==
  /\ pc = "ready"
  /\ Len(pipe[lima_pipe_pp].processor) >= 2
  /\ pipe[lima_pipe_pp].processor[2] # lima_ip_pp0 + 1
  /\ pipe[lima_pipe_gp].processor = << lima_ip_gp >>

\* the register value with exactly the bits of S set
RECURSIVE MaskOf(_)
MaskOf(S) == IF S = {} THEN 0
             ELSE LET b == CHOOSE x \in S : TRUE
                  IN  Pow2(b) + MaskOf(S \ {b})

\* the positions of the fragment processors that are present
PresentPp ==
  { k \in 0 .. (LIMA_SCHED_PIPE_MAX_PROCESSOR - 1) : ip[lima_ip_pp0 + k].present }

(* C10: after lima_bcast_enable(dev, num_pp) the low half of the broadcast *)
(* mask register, which the call rewrites, has exactly the bits of the     *)
(* positions of the first num_pp processors of the fragment pipe, whatever *)
(* was enabled before; the high half of that register and the interrupt    *)
(* mask register still hold what lima_bcast_init wrote.                    *)
C10_BroadcastMask ==
  num_pp >= 0 =>
    /\ regs.BROADCAST_MASK % Pow2(16)
         = MaskOf({ pipe[lima_pipe_pp].processor[n] - lima_ip_pp0 : n \in 1 .. num_pp })
    /\ regs.BROADCAST_MASK \div Pow2(16) = MaskOf(PresentPp)
    /\ regs.INTERRUPT_MASK = MaskOf(PresentPp)

\* two of the processors of a pipe that skips pp1 are enabled
C10_Witness ==
  /\ num_pp = 2
  /\ Len(pipe[lima_pipe_pp].processor) > 2
  /\ pipe[lima_pipe_pp].processor[2] = lima_ip_pp0 + 2
  /\ regs.BROADCAST_MASK % Pow2(16) = 5

(* C11: after a lima_device_init that failed at any stage, a following     *)
(* lima_device_fini releases nothing a second time: no slot fini, clock    *)
(* disable, regulator disable, reset assert, DMA free or VM put beyond the *)
(* number of matching acquisitions, and no pipe teardown beyond the pipe   *)
(* initialisations.                                                        *)
C11_FiniAfterFailedInit ==
  (pc = "removed" /\ err # 0) =>
    /\ NumCalls("clk_disable_unprepare_bus", 0)
         <= NumCallsOk("clk_prepare_enable_bus", 0)
    /\ NumCalls("clk_disable_unprepare_gpu", 0)
         <= NumCallsOk("clk_prepare_enable_gpu", 0)
    /\ NumCalls("reset_control_assert", 0)
         <= NumCallsOk("reset_control_deassert", 0)
    /\ NumCalls("regulator_disable", 0) <= NumCallsOk("regulator_enable", 0)
    /\ NumCalls("dma_free_wc", 0) <= NumCallsOk("dma_alloc_wc", 0)
    /\ NumCalls("lima_vm_put", 0) <= NumCallsOk("lima_vm_create", 0)
    /\ \A k \in Slots : NumCalls("fini", k) <= NumCallsOk("init", k)
    /\ \A p \in {lima_pipe_gp, lima_pipe_pp} :
         NumCalls("lima_sched_pipe_fini", p)
           <= NumCallsOk("lima_sched_pipe_init", p)
    /\ NumCalls("lima_gp_pipe_fini", 0) <= NumCallsOk("lima_gp_pipe_init", 0)
    /\ NumCalls("lima_pp_pipe_fini", 0) <= NumCallsOk("lima_pp_pipe_init", 0)

\* the calls made after lima_init_pp_pipe has succeeded, which ends a
\* successful lima_device_init
Teardown ==
  LET at == CHOOSE n \in DOMAIN calls :
              calls[n][1] = "lima_pp_pipe_init" /\ calls[n][3] = 0
  IN  SubSeq(calls, at + 1, Len(calls))

\* the place of a call in the teardown order, with reset_op the call made
\* on the reset line; -1 for a call that has no place in it
TeardownRank(e, reset_op) ==
  CASE e[1] = "lima_pp_pipe_fini" -> 0
    [] e[1] = "lima_sched_pipe_fini" /\ e[2] = lima_pipe_pp -> 1
    [] e[1] = "lima_gp_pipe_fini" -> 2
    [] e[1] = "lima_sched_pipe_fini" /\ e[2] = lima_pipe_gp -> 3
    [] e[1] = "fini" -> 4 + (Len(lima_ip_desc) - 1 - e[2])
    [] e[1] = "dma_free_wc" -> 40
    [] e[1] = "lima_vm_put" -> 41
    [] e[1] = "regulator_disable" -> 42
    [] e[1] = reset_op -> 43
    [] e[1] = "clk_disable_unprepare_gpu" -> 44
    [] e[1] = "clk_disable_unprepare_bus" -> 45
    [] OTHER -> -1

\* the teardown is one pass in the fixed order, and makes exactly the calls
\* the state of the device asks for
TeardownInOrder(reset_op) ==
  LET t == Teardown
      rank == [ n \in DOMAIN t |-> TeardownRank(t[n], reset_op) ]
      has(r) == \E n \in DOMAIN t : rank[n] = r
  IN  /\ \A n \in DOMAIN t : rank[n] >= 0
      /\ \A n \in 1 .. Len(t) - 1 : rank[n] < rank[n + 1]
      /\ \A r \in {0, 1, 2, 3, 41, 44, 45} : has(r)
      /\ \A k \in Slots : has(4 + (Len(lima_ip_desc) - 1 - k)) <=> ip[k].present
      /\ has(40) <=> ldev.dlbu_cpu # NULL
      /\ has(42) <=> ldev.regulator # NULL
      /\ has(43) <=> ldev.reset # NULL

\* C12 as stated: the pass ends by deasserting the reset line and disabling
\* the clocks
C12_TeardownOrderAsStated ==
  pc = "removed" => TeardownInOrder("reset_control_deassert")

(* C12: lima_device_fini tears down in one pass in this order: fragment    *)
(* pipe, geometry pipe, fini of the present slots in descending position,  *)
(* the DMA page if allocated, the empty VM, the regulator if there is one, *)
(* then assert of the reset line if there is one and disable of the core   *)
(* and bus clocks.                                                         *)
C12_TeardownOrder ==
  pc = "removed" => TeardownInOrder("reset_control_assert")

\* a mali450 with reset line and regulator, one optional slot missing, is
\* removed
C12_Witness ==
  /\ pc = "removed" /\ ldev.id = lima_gpu_mali450 /\ faults = 1
  /\ ldev.reset = VALID /\ ldev.regulator = VALID /\ ldev.dlbu_cpu # NULL
  /\ \E k \in Slots : offset_of(k, ldev.id) >= 0 /\ ~ ip[k].present

\* the candidate L2 cache of position j: l2_cache0 on mali400,
\* l2_cache{1 + j/4} on mali450
CandidateL2(j) ==
  IF ldev.id = lima_gpu_mali400 THEN lima_ip_l2_cache0
  ELSE lima_ip_l2_cache0 + 1 + (j \div 4)

\* the processor, the MMU and the candidate L2 cache of position j are present
Included(j) ==
  /\ ip[lima_ip_pp0 + j].present
  /\ ip[lima_ip_ppmmu0 + j].present
  /\ ip[CandidateL2(j)].present

(* C14: after lima_init_pp_pipe, position j in 0..7 is in the processor    *)
(* list of the fragment pipe iff pp{j}, ppmmu{j} and the candidate L2      *)
(* cache are all present; the positions appear in ascending order, each at *)
(* most once.  Before it the list is empty.                                *)
C14_PpMembership ==
  LET processor == pipe[lima_pipe_pp].processor
  IN  /\ PpComposed =>
           /\ \A j \in 0 .. (LIMA_SCHED_PIPE_MAX_PROCESSOR - 1) :
                (\E n \in DOMAIN processor : processor[n] = lima_ip_pp0 + j)
                  <=> Included(j)
           /\ \A n \in 1 .. Len(processor) - 1 : processor[n] < processor[n + 1]
      /\ ~ PpComposed => processor = << >>

\* a processor is present but left out because its MMU is not
C14_Witness ==
  /\ PpComposed
  /\ Len(pipe[lima_pipe_pp].processor) >= 2
  /\ \E j \in 0 .. (LIMA_SCHED_PIPE_MAX_PROCESSOR - 1) :
       ip[lima_ip_pp0 + j].present /\ ~ ip[lima_ip_ppmmu0 + j].present

\* the elements of s in the order of their first occurrence
RECURSIVE FirstSeen(_)
FirstSeen(s) ==
  IF s = << >> THEN << >>
  ELSE LET front == FirstSeen(SubSeq(s, 1, Len(s) - 1))
           last  == s[Len(s)]
       IN  IF last \in Range(front) THEN front ELSE Append(front, last)

(* C15: after lima_init_pp_pipe the L2 cache list of the fragment pipe has *)
(* no duplicates and at most 3 entries, and is the sequence of the         *)
(* distinct candidate caches of the included positions in first-seen       *)
(* order.                                                                  *)
C15_L2Dedup ==
  LET processor == pipe[lima_pipe_pp].processor
      l2_cache  == pipe[lima_pipe_pp].l2_cache
      candidates == [ n \in DOMAIN processor |->
                        CandidateL2(processor[n] - lima_ip_pp0) ]
  IN  PpComposed =>
        /\ NoRepeat(l2_cache)
        /\ Len(l2_cache) <= 3
        /\ l2_cache = FirstSeen(candidates)

\* seven processors share two caches, one position is left out
C15_Witness ==
  /\ PpComposed /\ ldev.id = lima_gpu_mali450
  /\ Len(pipe[lima_pipe_pp].processor) = 7
  /\ pipe[lima_pipe_pp].l2_cache = << lima_ip_l2_cache1, lima_ip_l2_cache2 >>

(* C16: after a successful lima_device_init the broadcast processor and    *)
(* broadcast MMU references of the fragment pipe are set iff the bcast     *)
(* slot is present, and when set they refer to pp_bcast and ppmmu_bcast,   *)
(* which are present themselves.                                           *)
C16_BroadcastRefs ==
  LET pp == pipe[lima_pipe_pp]
  IN  InitSucceeded =>
        /\ pp.bcast_processor # << >> <=> ip[lima_ip_bcast].present
        /\ pp.bcast_mmu # << >> <=> ip[lima_ip_bcast].present
        /\ pp.bcast_processor # << >> =>
             /\ pp.bcast_processor = << lima_ip_pp_bcast >>
             /\ ip[lima_ip_pp_bcast].present
        /\ pp.bcast_mmu # << >> =>
             /\ pp.bcast_mmu = << lima_ip_ppmmu_bcast >>
             /\ ip[lima_ip_ppmmu_bcast].present

\* a mali450 is up with its broadcast references set
C16_Witness ==
  /\ pc = "ready" /\ ip[lima_ip_bcast].present
  /\ pipe[lima_pipe_pp].bcast_processor = << lima_ip_pp_bcast >>
  /\ pipe[lima_pipe_pp].bcast_mmu = << lima_ip_ppmmu_bcast >>

\* lima_bcast_init has run
BcastInited == NumCalls("init", lima_ip_bcast) > 0

\* C17 as stated: one register holds the mask in its low bits and the same
\* mask in its upper 16 bits
C17_BcastInitAsStated ==
  (BcastInited /\ num_pp = -1) =>
    \E r \in DOMAIN regs :
      regs[r] = MaskOf(PresentPp) * Pow2(16) + MaskOf(PresentPp)

(* C17: lima_bcast_init computes the mask with bit j set exactly when      *)
(* pp{j} is present, writes the mask shifted into the upper 16 bits of the *)
(* broadcast mask register, whose low half it leaves 0, writes the mask    *)
(* itself into the separate interrupt mask register, and returns 0         *)
(* whatever happens; the mask is that of the present fragment processors   *)
(* in every later state.                                                   *)
C17_BcastInit ==
  /\ (BcastInited /\ num_pp = -1) =>
       /\ regs.BROADCAST_MASK = MaskOf(PresentPp) * Pow2(16)
       /\ regs.INTERRUPT_MASK = MaskOf(PresentPp)
  /\ \A n \in CallsTo("init", lima_ip_bcast) : calls[n][3] = 0
  /\ ~ BcastInited => regs.BROADCAST_MASK = 0 /\ regs.INTERRUPT_MASK = 0

\* the broadcast unit of a mali450 without pp2 is programmed
C17_Witness ==
  /\ pc = "ready" /\ BcastInited
  /\ ~ ip[lima_ip_pp0 + 2].present
  /\ regs.INTERRUPT_MASK = 251
  /\ regs.BROADCAST_MASK = 251 * Pow2(16)

(* C18: over one lima_device_init, followed or not by lima_device_fini     *)
(* after success, a slot is present only if its register window was        *)
(* derived from its offset and its init ran exactly once and returned 0;   *)
(* the fini of a slot is called at most once and only on a present slot.   *)
C18_SlotLifecycle ==
  LET attempted == ArgsOf("init")
      inited    == ArgsOfOk("init")
      finied    == ArgsOf("fini")
  IN  /\ NoRepeat(attempted)
      /\ NoRepeat(finied)
      /\ \A k \in Slots :
           ip[k].present =>
             /\ offset_of(k, ldev.id) >= 0
             /\ ip[k].iomem = << offset_of(k, ldev.id) >>
             /\ k \in Range(inited)
      /\ \A k \in Range(finied) : ip[k].present

\* a mali400 without its pmu has been removed; gp got its one fini
C18_Witness ==
  /\ pc = "removed" /\ ldev.id = lima_gpu_mali400
  /\ ~ ip[lima_ip_pmu].present
  /\ NumCalls("init", lima_ip_gp) = 1 /\ NumCalls("fini", lima_ip_gp) = 1
  /\ NumCalls("fini", lima_ip_pmu) = 0

\* the stage of lima_device_init a call belongs to; 0 for the calls of the
\* unwind and of the teardown
StageRank(e) ==
  CASE e[1] \in { "devm_clk_get_bus", "devm_clk_get_core",
                  "clk_prepare_enable_bus", "clk_prepare_enable_gpu",
                  "devm_reset_control_get_optional",
                  "reset_control_deassert" } -> 1
    [] e[1] \in { "devm_regulator_get_optional", "regulator_enable" } -> 2
    [] e[1] = "lima_vm_create" -> 3
    [] e[1] = "dma_alloc_wc" -> 4
    [] e[1] = "devm_ioremap_resource" -> 5
    [] e[1] \in { "platform_get_irq_byname", "init" } -> 6 + e[2]
    [] e[1] = "lima_sched_pipe_init" /\ e[2] = lima_pipe_gp -> 40
    [] e[1] = "lima_gp_pipe_init" -> 40
    [] e[1] = "lima_sched_pipe_init" /\ e[2] = lima_pipe_pp -> 41
    [] e[1] = "lima_pp_pipe_init" -> 41
    [] OTHER -> 0

(* C19: in every run of lima_device_init the stages come in the order      *)
(* clocks and reset, regulator, empty VM, DMA page (on mali450 only),      *)
(* register mapping, slots in ascending table order, geometry pipe,        *)
(* fragment pipe, none of them before the ones ahead of it were gone       *)
(* through; no slot is touched before the mapping succeeded and no pipe    *)
(* is composed before every slot of the table was gone through.            *)
C19_BringUpOrder ==
  LET attempts == SelectSeq(calls, LAMBDA e : StageRank(e) > 0)
      rank     == [ n \in DOMAIN attempts |-> StageRank(attempts[n]) ]
      has(r)   == \E n \in DOMAIN rank : rank[n] = r
      slots    == { n \in DOMAIN rank : rank[n] >= 6 /\ rank[n] < 40 }
      pipes    == { n \in DOMAIN rank : rank[n] >= 40 }
  IN  /\ \A n \in 1 .. Len(rank) - 1 : rank[n] <= rank[n + 1]
      /\ has(2) => has(1)
      /\ has(3) => has(2)
      /\ has(4) => has(3) /\ ldev.id = lima_gpu_mali450
      /\ has(5) => has(3) /\ (has(4) <=> ldev.id = lima_gpu_mali450)
      /\ slots # {} => CallsRet("devm_ioremap_resource", 0, 0) # {}
      /\ has(41) => has(40)
      /\ pipes # {} =>
           /\ i = Len(lima_ip_desc)
           /\ \A k \in 1 .. Len(lima_ip_desc) :
                offset_of(k - 1, ldev.id) >= 0 => has(6 + (k - 1))

\* a mali450 went through every stage
C19_Witness ==
  /\ pc = "ready" /\ ldev.id = lima_gpu_mali450
  /\ NumCallsOk("dma_alloc_wc", 0) = 1
  /\ NumCallsOk("init", lima_ip_ppmmu_bcast) = 1
  /\ NumCallsOk("lima_gp_pipe_init", 0) = 1
  /\ NumCallsOk("lima_pp_pipe_init", 0) = 1

\* the positions of the bits set in the low 16 bits of m
LowBits(m) == { b \in 0 .. 15 : Bit(m, b) = 1 }

(* C20: on a device that is up with its broadcast unit, after any          *)
(* lima_bcast_enable calls with num_pp between 0 and the processor count   *)
(* of the fragment pipe, every processor selected in the low half of the   *)
(* broadcast mask register is in the present mask that lima_bcast_init     *)
(* programmed and has present=true, and the number of selected bits is     *)
(* num_pp.                                                                 *)
C20_EnableWithinPresent ==
  num_pp >= 0 =>
    LET selected == LowBits(regs.BROADCAST_MASK)
    IN  /\ selected \subseteq LowBits(regs.INTERRUPT_MASK)
        /\ selected \subseteq LowBits(regs.BROADCAST_MASK \div Pow2(16))
        /\ \A b \in selected :
             /\ b < LIMA_SCHED_PIPE_MAX_PROCESSOR
             /\ ip[lima_ip_pp0 + b].present
        /\ Cardinality(selected) = num_pp

\* three processors are selected on a device without pp1
C20_Witness ==
  /\ pc = "ready" /\ num_pp = 3
  /\ ~ ip[lima_ip_pp0 + 1].present
  /\ LowBits(regs.BROADCAST_MASK) = {0, 2, 3}

(* C13: when lima_device_init is called again on the same device after it  *)
(* failed or after lima_device_fini, the attempt behaves as on a fresh     *)
(* device: afterwards a slot is present only if its init succeeded in      *)
(* this attempt, and the processor, MMU and L2 cache lists of the pipes    *)
(* hold only what this attempt's composition added.                        *)
C13_RetryAsFresh ==
  (attempt > 1 /\ pc \in {"ready", "failed"}) =>
    LET gp == pipe[lima_pipe_gp]
        pp == pipe[lima_pipe_pp]
    IN  /\ \A k \in Slots : ip[k].present => k \in Range(ArgsOfOk("init"))
        /\ GpComposed =>
             /\ gp.processor = << lima_ip_gp >>
             /\ gp.mmu = << lima_ip_gpmmu >>
             /\ gp.l2_cache = << lima_ip_l2_cache0 >>
        /\ ~ GpComposed =>
             gp.processor = << >> /\ gp.mmu = << >> /\ gp.l2_cache = << >>
        /\ PpComposed =>
             NoRepeat(pp.processor) /\ NoRepeat(pp.mmu) /\ NoRepeat(pp.l2_cache)
        /\ ~ PpComposed =>
             pp.processor = << >> /\ pp.mmu = << >> /\ pp.l2_cache = << >>

====
